---- MODULE Spec2Model ----
(***************************************************************************)
(* The recurrence solver of tools/recurrence_solver.py as a state machine. *)
(* One run of main() reads one JSON request, dispatches it to one of the   *)
(* four handlers and prints the response.  The symbolic engine (SymPy) is  *)
(* modelled by what it computes on expressions of the shape                *)
(*     coef * phi^cphi * (n!)^fact * B^n * n^(deg2/2) * log(n)^logp        *)
(*          [+ log(n)^tail, a lower-order term]                            *)
(* and by the outcomes it may deliver instead of the mathematical limit    *)
(* (raising, nan, an unevaluated limit, some positive number).             *)
(***************************************************************************)
EXTENDS Integers, Sequences, FiniteSets, TLC

VARIABLES pc, req, eng, resp

vars == <<pc, req, eng, resp>>

(***************************************************************************)
(* Bounds of the model.                                                    *)
(***************************************************************************)
\* Largest coefficient magnitude of a request expression.
MaxCoef == 2
\* Largest number of engine calls of one request that deviate from the
\* mathematical limit.
MaxFaults == 1
\* The critical exponents log_b(a) of the requests lie around 0, 0.5, ...,
\* MaxExpHalves * 0.5.
MaxExpHalves == 2

(***************************************************************************)
(* Expressions.                                                            *)
(***************************************************************************)
Mono(c, ph, fa, b, d, l, t) ==
    [k |-> "expr", coef |-> c, cphi |-> ph, fact |-> fa, base |-> b,
     deg2 |-> d, logp |-> l, tail |-> t]

\* What parse_complexity returns for "True", "1,2", "n < 2": a SymPy object
\* that is no Expr (no is_constant, no is_polynomial, no arithmetic).
NonExpr ==
    [k |-> "nonexpr", coef |-> 0, cphi |-> 0, fact |-> 0, base |-> 0,
     deg2 |-> 0, logp |-> 0, tail |-> 0]

ZeroExpr == Mono(0, 0, 0, 0, 0, 0, 0)

\* The base B of B^n is encoded by its rank: 0 is 1 (no exponential factor),
\* 1 is 3/2, 2 is phi = (1 + sqrt(5))/2, 3 is 2, 4 is 3.

\* The growth of an expression, compared lexicographically:
\* n! beats B^n beats n^d beats log(n)^k.
GrowthCmp(f, g) ==
    IF f.fact # g.fact THEN (IF f.fact < g.fact THEN -1 ELSE 1)
    ELSE IF f.base # g.base THEN (IF f.base < g.base THEN -1 ELSE 1)
    ELSE IF f.deg2 # g.deg2 THEN (IF f.deg2 < g.deg2 THEN -1 ELSE 1)
    ELSE IF f.logp # g.logp THEN (IF f.logp < g.logp THEN -1 ELSE 1)
    ELSE 0

(***************************************************************************)
(* Values of limit(): a number num/den * phi^phi, an infinity, nan, an     *)
(* unevaluated Limit object, or an exception.                              *)
(***************************************************************************)
LV(kind, num, den, ph) == [kind |-> kind, num |-> num, den |-> den, phi |-> ph]

Num(num, den, ph) == LV("num", num, den, ph)
Oo == LV("oo", 0, 1, 0)
NegOo == LV("-oo", 0, 1, 0)
Zoo == LV("zoo", 0, 1, 0)
NaN == LV("nan", 0, 1, 0)
Unevaluated == LV("uneval", 0, 1, 0)
Raised == LV("raise", 0, 1, 0)

AbsInt(x) == IF x < 0 THEN -x ELSE x

SignInt(x) == IF x < 0 THEN -1 ELSE IF x > 0 THEN 1 ELSE 0

\* limit(f / g, n, oo) as mathematics gives it.
LimitRatio(f, g) ==
    IF g.coef = 0 THEN (IF f.coef = 0 THEN NaN ELSE Zoo)
    ELSE IF f.coef = 0 THEN Num(0, 1, 0)
    ELSE LET c == GrowthCmp(f, g) IN
         IF c < 0 THEN Num(0, 1, 0)
         ELSE IF c > 0
              THEN (IF SignInt(f.coef) = SignInt(g.coef) THEN Oo ELSE NegOo)
              ELSE Num(f.coef * SignInt(g.coef), AbsInt(g.coef), f.cphi - g.cphi)

\* The SymPy attributes the code reads off a limit; None counts as False,
\* as it does in Python's `and`.
is_number(l) == l.kind \in {"num", "oo", "-oo", "zoo", "nan"}

is_positive(l) == l.kind = "num" /\ l.num > 0

is_finite(l) == l.kind = "num"

is_nonnegative(l) == l.kind = "num" /\ l.num >= 0

IsZeroValue(l) == l.kind = "num" /\ l.num = 0

(***************************************************************************)
(* What the engine delivers at the limit calls of one request.  sites      *)
(* numbers the calls that deviate from LimitRatio, kind is what they       *)
(* deliver.                                                                *)
(***************************************************************************)
FaultKinds == {"raise", "nan", "uneval", "pos"}

\* An unevaluated Limit and nan fail the same tests of the ladder and of the
\* bound checks (neither is positive); the degree probes tell them apart.
LadderFaultKinds == {"raise", "nan", "pos"}

FaultValue(kind) ==
    CASE kind = "raise" -> Raised
      [] kind = "nan" -> NaN
      [] kind = "uneval" -> Unevaluated
      [] OTHER -> Num(1, 1, 0)

NoFault == [sites |-> {}, kind |-> "raise"]

\* The subsets of S of at most m elements.
RECURSIVE SmallSubsets(_, _)
SmallSubsets(S, m) ==
    IF m = 0 THEN {{}}
    ELSE LET smaller == SmallSubsets(S, m - 1)
         IN  smaller \cup {t \cup {x} : t \in smaller, x \in S}

Faults(allSites, kinds) ==
    {NoFault} \cup
    {[sites |-> s, kind |-> kd] :
        s \in SmallSubsets(allSites, MaxFaults) \ {{}}, kd \in kinds}

\* The outcome of limit call number site on f / g.
LimitAt(f, g, site, flt) ==
    IF site \in flt.sites THEN FaultValue(flt.kind) ELSE LimitRatio(f, g)

(***************************************************************************)
(* Structural tests of an expression.                                      *)
(***************************************************************************)
\* expr.is_constant(): no n in it.
IsConstant(e) ==
    e.coef = 0 \/
    (e.fact = 0 /\ e.base = 0 /\ e.deg2 = 0 /\ e.logp = 0 /\ e.tail = 0)

\* expr.is_polynomial(n): a constant multiple of a whole power of n.
IsPolynomial(e) ==
    e.coef = 0 \/
    (e.fact = 0 /\ e.base = 0 /\ e.logp = 0 /\ e.tail = 0 /\ e.deg2 % 2 = 0)

\* n^(d2/2), the divisor of the degree probes.
NPower(d2) == Mono(1, 0, 0, 0, d2, 0, 0)

(***************************************************************************)
(* Complexity strings.  text is the f-string or label of the source, p, k  *)
(* and expr are what it is filled with, rung is the ladder index of a      *)
(* label (0 otherwise).                                                    *)
(***************************************************************************)
Cx(form, rung, text, p, k, e) ==
    [form |-> form, rung |-> rung, text |-> text, p |-> p, k |-> k, expr |-> e]

\* The ladder of extract_complexity, as the source lists it.  The entry
\* labelled O(phi^n) is (1 + sqrt(5))/2, a constant: there is no n in it.
candidates == <<
    [expr |-> Mono(1, 0, 0, 0, 0, 0, 0), str |-> "O(1)"],
    [expr |-> Mono(1, 0, 0, 0, 0, 1, 0), str |-> "O(log(n))"],
    [expr |-> Mono(1, 0, 0, 0, 0, 2, 0), str |-> "O(log^2(n))"],
    [expr |-> Mono(1, 0, 0, 0, 1, 0, 0), str |-> "O(sqrt(n))"],
    [expr |-> Mono(1, 0, 0, 0, 2, 0, 0), str |-> "O(n)"],
    [expr |-> Mono(1, 0, 0, 0, 2, 1, 0), str |-> "O(n*log(n))"],
    [expr |-> Mono(1, 0, 0, 0, 2, 2, 0), str |-> "O(n*log^2(n))"],
    [expr |-> Mono(1, 0, 0, 0, 3, 0, 0), str |-> "O(n^(3/2))"],
    [expr |-> Mono(1, 0, 0, 0, 4, 0, 0), str |-> "O(n^2)"],
    [expr |-> Mono(1, 0, 0, 0, 4, 1, 0), str |-> "O(n^2*log(n))"],
    [expr |-> Mono(1, 0, 0, 0, 6, 0, 0), str |-> "O(n^3)"],
    [expr |-> Mono(1, 0, 0, 0, 8, 0, 0), str |-> "O(n^4)"],
    [expr |-> Mono(1, 0, 0, 1, 0, 0, 0), str |-> "O(1.5^n)"],
    [expr |-> Mono(1, 1, 0, 0, 0, 0, 0), str |-> "O(phi^n)"],
    [expr |-> Mono(1, 0, 0, 3, 0, 0, 0), str |-> "O(2^n)"],
    [expr |-> Mono(1, 0, 1, 0, 0, 0, 0), str |-> "O(n!)"] >>

NumRungs == Len(candidates)

Rungs == 1..NumRungs

\* The limit call of extract_degree_via_limit comes after those of the rungs.
DegreeSite == NumRungs + 1

ClassifySites == 1..DegreeSite

RungLabel(i) == Cx("label", i, candidates[i].str, 0, 0, ZeroExpr)

\* The test of the loop without lim.is_positive.
RungMatchesUnsigned(lim) ==
    lim.kind # "raise" /\ is_number(lim) /\ is_finite(lim)

\* The test of the loop: lim.is_number and lim.is_positive and lim.is_finite;
\* an exception of simplify or limit goes on to the next rung.
RungMatches(lim) ==
    lim.kind # "raise" /\ is_number(lim) /\ is_positive(lim) /\ is_finite(lim)

\* The for loop over the candidates from rung i on: the first rung that
\* matches, 0 when none does.  A limit of 0, of oo or zoo, and any other
\* value all go on to the next rung.
RECURSIVE ScanLadder(_, _, _)
ScanLadder(expr, flt, i) ==
    IF i > NumRungs THEN 0
    ELSE IF RungMatches(LimitAt(expr, candidates[i].expr, i, flt)) THEN i
    ELSE ScanLadder(expr, flt, i + 1)

\* limit(log(Abs(expr)) / log(n), n, oo) as mathematics gives it.
LogRatioLimit(expr) ==
    IF expr.fact > 0 \/ expr.base > 0 THEN Oo
    ELSE Num(expr.deg2, 2, 0)

\* extract_degree_via_limit without the is_finite test.
extract_degree_unchecked(expr, flt) ==
    LET degree_limit == IF DegreeSite \in flt.sites THEN FaultValue(flt.kind)
                        ELSE LogRatioLimit(expr)
    IN  IF degree_limit.kind # "raise" /\ is_number(degree_limit)
        THEN degree_limit
        ELSE LV("none", 0, 1, 0)

\* extract_degree_via_limit: the limit when it is a finite number, else None
\* (kind "none"); an exception gives None too.
extract_degree_via_limit(expr, flt) ==
    LET degree_limit == IF DegreeSite \in flt.sites THEN FaultValue(flt.kind)
                        ELSE LogRatioLimit(expr)
    IN  IF degree_limit.kind # "raise" /\ is_number(degree_limit)
           /\ is_finite(degree_limit)
        THEN degree_limit
        ELSE LV("none", 0, 1, 0)

\* The body of extract_complexity after the is_constant test.
ClassifyNonConstant(expr, flt) ==
    LET hit == ScanLadder(expr, flt, 1)
        degree == extract_degree_via_limit(expr, flt)
    IN  IF hit # 0 THEN RungLabel(hit)
        ELSE IF degree.kind # "none"
        THEN (IF degree.num % degree.den = 0
              THEN Cx("npow", 0, "O(n^{int(degree)})", degree.num \div degree.den, 0, ZeroExpr)
              ELSE Cx("npow2f", 0, "O(n^{degree:.2f})", degree.num, degree.den, ZeroExpr))
        ELSE IF IsPolynomial(expr)
        THEN Cx("leading", 0, "O({leading})", 0, 0, expr)
        ELSE Cx("expr", 0, "O({expr})", 0, 0, expr)

\* extract_complexity.  An object that is no Expr has no is_constant: the
\* AttributeError reaches the outer except, which returns O(?).
extract_complexity(expr, flt) ==
    IF expr.k = "nonexpr" THEN Cx("unknown", 0, "O(?)", 0, 0, ZeroExpr)
    ELSE IF IsConstant(expr) THEN Cx("label", 1, "O(1)", 0, 0, ZeroExpr)
    ELSE ClassifyNonConstant(expr, flt)

(***************************************************************************)
(* Python values of the responses.                                         *)
(***************************************************************************)
PyNone == [t |-> "none"]

PyStr(s) == [t |-> "str", s |-> s]

PyInt(i) == [t |-> "int", i |-> i]

\* float(lim) of a finite number: num/den * phi^phi.
PyFloat(num, den, ph) == [t |-> "float", num |-> num, den |-> den, phi |-> ph]

PyInf == [t |-> "inf"]

\* str(x) of an engine value.
StrOf(x) == [t |-> "str_of", v |-> x]

\* A float of the divide-and-conquer analysis: an exponent in units of
\* 0.005, or -inf, or nan, or None.
Exp(t, u) == [t |-> t, u |-> u]

(***************************************************************************)
(* The three bound checks and the qualitative relation, on the outcome of  *)
(* limit(simplify(f / g), n, oo).                                          *)
(***************************************************************************)
Verdict(holds, c) == [holds |-> holds, constant |-> c]

verify_big_o(lim) ==
    IF lim.kind = "raise" THEN Verdict(FALSE, PyNone)
    ELSE IF is_number(lim) /\ is_finite(lim) /\ is_nonnegative(lim)
    THEN Verdict(TRUE, IF ~IsZeroValue(lim) THEN PyFloat(lim.num, lim.den, lim.phi)
                       ELSE PyFloat(0, 1, 0))
    ELSE IF IsZeroValue(lim) THEN Verdict(TRUE, PyFloat(0, 1, 0))
    ELSE Verdict(FALSE, PyNone)

\* verify_big_omega with lim == oo as its only divergence.
verify_big_omega_oo_only(lim) ==
    IF lim.kind = "raise" THEN Verdict(FALSE, PyNone)
    ELSE IF lim.kind = "oo" THEN Verdict(TRUE, PyInf)
    ELSE IF is_number(lim) /\ is_positive(lim)
    THEN Verdict(TRUE, PyFloat(lim.num, lim.den, lim.phi))
    ELSE Verdict(FALSE, PyNone)

verify_big_omega(lim) ==
    IF lim.kind = "raise" THEN Verdict(FALSE, PyNone)
    ELSE IF lim.kind \in {"oo", "zoo"} THEN Verdict(TRUE, PyInf)
    ELSE IF is_number(lim) /\ is_positive(lim)
    THEN Verdict(TRUE, PyFloat(lim.num, lim.den, lim.phi))
    ELSE Verdict(FALSE, PyNone)

\* verify_big_theta with is_nonnegative in the place of is_positive.
verify_big_theta_nonnegative(lim) ==
    IF lim.kind = "raise" THEN Verdict(FALSE, PyNone)
    ELSE IF is_number(lim) /\ is_nonnegative(lim) /\ is_finite(lim)
    THEN Verdict(TRUE, [t |-> "pair",
                        c1 |-> PyFloat(lim.num, lim.den * 2, lim.phi),
                        c2 |-> PyFloat(lim.num * 2, lim.den, lim.phi)])
    ELSE Verdict(FALSE, PyNone)

\* The constants are c * 0.5 and c * 2.0 for c = float(lim).
verify_big_theta(lim) ==
    IF lim.kind = "raise" THEN Verdict(FALSE, PyNone)
    ELSE IF is_number(lim) /\ is_positive(lim) /\ is_finite(lim)
    THEN Verdict(TRUE, [t |-> "pair",
                        c1 |-> PyFloat(lim.num, lim.den * 2, lim.phi),
                        c2 |-> PyFloat(lim.num * 2, lim.den, lim.phi)])
    ELSE Verdict(FALSE, PyNone)

\* compare_asymptotic with the answers of the second round exchanged.
compare_asymptotic_unmirrored(lim, inv_lim) ==
    IF lim.kind = "raise" THEN "?"
    ELSE IF IsZeroValue(lim) THEN "f < g"
    ELSE IF lim.kind \in {"oo", "zoo", "-oo"} THEN "f > g"
    ELSE IF is_number(lim) /\ is_positive(lim) /\ is_finite(lim) THEN "f ~ g"
    ELSE IF inv_lim.kind = "raise" THEN "?"
    ELSE IF IsZeroValue(inv_lim) THEN "f < g"
    ELSE IF inv_lim.kind \in {"oo", "zoo"} THEN "f > g"
    ELSE "?"

\* compare_asymptotic on the outcomes of limit(f / g) and limit(g / f).
compare_asymptotic(lim, inv_lim) ==
    IF lim.kind = "raise" THEN "?"
    ELSE IF IsZeroValue(lim) THEN "f < g"
    ELSE IF lim.kind \in {"oo", "zoo", "-oo"} THEN "f > g"
    ELSE IF is_number(lim) /\ is_positive(lim) /\ is_finite(lim) THEN "f ~ g"
    ELSE IF inv_lim.kind = "raise" THEN "?"
    ELSE IF IsZeroValue(inv_lim) THEN "f > g"
    ELSE IF inv_lim.kind \in {"oo", "zoo"} THEN "f < g"
    ELSE "?"

(***************************************************************************)
(* The degree and the log power of a driving term.                         *)
(***************************************************************************)
\* epsilon = 0.01, in units of 0.005.
Epsilon == 2

\* A degree of d2 halves, in units of 0.005.
Units(d2) == d2 * 50 * Epsilon

\* The degrees get_polynomial_degree probes, in halves:
\* 0, 0.5, 1, 1.5, 2, 2.5, 3, 4, 5.
ProbeDegrees == <<0, 1, 2, 3, 4, 5, 6, 8, 10>>

ProbeSites == 1..Len(ProbeDegrees)

\* ratio not in (0, oo, -oo, zoo, nan) and ratio.is_constant().  A Limit
\* object left unevaluated has no free symbol: is_constant() holds of it.
ProbeAccepts(ratio) ==
    /\ ~IsZeroValue(ratio)
    /\ ratio.kind \notin {"oo", "-oo", "zoo", "nan"}
    /\ ratio.kind \in {"num", "uneval"}

\* The loop of get_polynomial_degree from probe i on; an exception of limit
\* ends the function with None.
RECURSIVE ProbeDegree(_, _, _)
ProbeDegree(expr, flt, i) ==
    IF i > Len(ProbeDegrees) THEN Exp("none", 0)
    ELSE LET ratio == LimitAt(expr, NPower(ProbeDegrees[i]), i, flt) IN
         IF ratio.kind = "raise" THEN Exp("none", 0)
         ELSE IF ProbeAccepts(ratio) THEN Exp("float", Units(ProbeDegrees[i]))
         ELSE ProbeDegree(expr, flt, i + 1)

\* get_polynomial_degree.  The degree of the zero polynomial is -oo; an
\* object that is no Expr has no is_polynomial, and the except returns None.
get_polynomial_degree(expr, flt) ==
    IF expr.k = "nonexpr" THEN Exp("none", 0)
    ELSE IF IsPolynomial(expr)
    THEN (IF expr.coef = 0 THEN Exp("-inf", 0) ELSE Exp("float", Units(expr.deg2)))
    ELSE ProbeDegree(expr, flt, 1)

\* get_log_power with 1 as the power of an expression without a log.
get_log_power_from_one(expr) ==
    IF expr.logp = 0 /\ expr.tail = 0 THEN 1
    ELSE LET kk == IF expr.logp > 0 THEN expr.logp ELSE expr.tail IN
         IF kk >= 2 THEN kk ELSE 1

\* get_log_power: 0 without a log, the exponent after "log(n)**" when the
\* string of the expression has one, 1 when it has a bare "log(n)".
get_log_power(expr) ==
    IF expr.logp = 0 /\ expr.tail = 0 THEN 0
    ELSE LET kk == IF expr.logp > 0 THEN expr.logp ELSE expr.tail IN
         IF kk >= 2 THEN kk ELSE 1

\* float(log(a, b).evalf()).  log(a, 1) is zoo, log(1, 1) is nan, log(0, b)
\* is zoo, the log of a negative number is complex, that of a string that
\* names no number is symbolic: float() raises TypeError on all but nan.
critical_exp_float(a, b, p) ==
    IF a = "str" \/ b = "str" \/ a = "neg" \/ b = "neg" \/ a = "zero"
    THEN Exp("raise", 0)
    ELSE IF b = "one" THEN (IF a = "one" THEN Exp("nan", 0) ELSE Exp("raise", 0))
    ELSE IF a = "one" THEN Exp("float", 0)
    ELSE Exp("float", p)

\* f_degree < critical_exp_float - epsilon.
BelowCritical(d, p) ==
    /\ p.t = "float"
    /\ (d.t = "-inf" \/ (d.t = "float" /\ d.u < p.u - Epsilon))

\* abs(f_degree - critical_exp_float) < epsilon.
NearCritical(d, p) ==
    p.t = "float" /\ d.t = "float" /\ AbsInt(d.u - p.u) < Epsilon

\* The if / elif / else of the Master Theorem branch.
master_theorem_case(d, p) ==
    IF BelowCritical(d, p) THEN 1
    ELSE IF NearCritical(d, p) THEN 2
    ELSE 3

\* The complexity string of the Master Theorem branch.
MasterComplexity(f_n, d, p) ==
    LET case == master_theorem_case(d, p)
        log_power == get_log_power(f_n)
    IN  IF case = 1 THEN Cx("dc1", 0, "O(n^{critical_exp})", p.u, 0, ZeroExpr)
        ELSE IF case = 2
        THEN (IF log_power = 0
              THEN Cx("dc2", 0, "O(n^{critical_exp} * log(n))", p.u, 1, ZeroExpr)
              ELSE Cx("dc2k", 0, "O(n^{critical_exp} * log(n)^{log_power + 1})",
                      p.u, log_power + 1, ZeroExpr))
        ELSE Cx("dc3", 0, "O({f_n})", 0, 0, f_n)

(***************************************************************************)
(* Requests and responses.                                                 *)
(***************************************************************************)
\* A string field of a request, by what parse_complexity makes of it.
Parsed(e) == [ok |-> TRUE, expr |-> e]

Unparseable == [ok |-> FALSE, expr |-> ZeroExpr]

\* One entry of the "base" object: its key (kok is whether int(key) works)
\* and its value.
BaseEntry(kok, k, v) == [kok |-> kok, k |-> k, v |-> v]

\* The ValueError text of ComplexityParser.parse.
ParseErrorText == "Could not parse complexity expression"

\* str(e) of an exception the engine or Python raised inside a try block.
ExceptionText == "exception message"

\* A failure response that keeps a result field.
FailureWithResult(msg) ==
    [success |-> FALSE, error |-> PyStr(msg), complexity |-> PyNone]

\* The failure response of every handler: success and error, nothing else.
Failure(msg) == [success |-> FALSE, error |-> PyStr(msg)]

\* An exception that leaves the handler: nothing is returned.
Escaped(name) == [raised |-> name]

\* What the engine delivered to the handler: the limit outcomes (flt), the
\* result of rsolve, and whether the closed form leaves no residual in the
\* defining equation at the trial indices.
Engine(flt, out, sol, resid) ==
    [flt |-> flt, rsolve |-> [out |-> out, sol |-> sol], resid |-> resid]

NoEngine == Engine(NoFault, "unused", ZeroExpr, TRUE)

BadKeys(base) == {i \in 1..Len(base) : ~base[i].kok}

\* init_conds: the dict from T(int(k)) to the value.  Two keys that name one
\* integer ("0" and "00") are one entry, with the value of the later key.
init_conds(base) ==
    LET idxs == {base[i].k : i \in 1..Len(base)}
        last(k) == CHOOSE i \in 1..Len(base) :
                       /\ base[i].k = k
                       /\ \A j \in 1..Len(base) : base[j].k = k => j <= i
    IN  [k \in idxs |-> base[last(k)].v]

(***************************************************************************)
(* solve_linear_recurrence                                                 *)
(***************************************************************************)
\* verify_solution_numerically: order is len(init_conds); only T(n) ..
\* T(n - order) are replaced by values of the closed form, so with fewer
\* base cases than coefficients a T(...) stays in the residual, complex()
\* raises on it and the except returns False.
verify_solution_numerically(data, e) ==
    LET order == Cardinality(DOMAIN init_conds(data.base))
    IN  IF order < Len(data.coeffs.cs) THEN FALSE ELSE e.resid

solve_linear_recurrence(data, e) ==
    IF ~data.f_n.ok THEN Failure("Invalid f(n): " \o ParseErrorText)
    \* T(n) - f_n and c * T(n - 1 - i) are outside every try block.
    ELSE IF data.f_n.expr.k = "nonexpr" THEN Escaped("TypeError")
    ELSE IF ~data.coeffs.ok THEN Escaped("TypeError")
    \* and so is T(int(k)).
    ELSE IF BadKeys(data.base) # {} THEN Escaped("ValueError")
    ELSE IF e.rsolve.out = "raise" THEN Failure(ExceptionText)
    ELSE IF e.rsolve.out = "none"
    THEN Failure("rsolve returned None - recurrence may be unsolvable")
    ELSE [success |-> TRUE,
          closed_form |-> StrOf(e.rsolve.sol),
          complexity |-> extract_complexity(e.rsolve.sol, e.flt),
          latex |-> [t |-> "latex", v |-> e.rsolve.sol],
          verified |-> verify_solution_numerically(data, e),
          error |-> PyNone]

(***************************************************************************)
(* solve_divide_conquer                                                    *)
(***************************************************************************)
solve_divide_conquer(data, e) ==
    IF ~data.f_n.ok THEN Failure("Invalid f(n): " \o ParseErrorText)
    ELSE LET p == critical_exp_float(data.a, data.b, data.p)
             f_degree == get_polynomial_degree(data.f_n.expr, e.flt)
         IN  \* float(critical_exp.evalf()) is outside every try block.
             IF p.t = "raise" THEN Escaped("TypeError")
             ELSE IF f_degree.t # "none"
             THEN [success |-> TRUE,
                   closed_form |-> PyNone,
                   complexity |-> MasterComplexity(data.f_n.expr, f_degree, p),
                   master_theorem_case |-> master_theorem_case(f_degree, p),
                   critical_exponent |-> StrOf(p),
                   f_degree |-> f_degree,
                   verified |-> TRUE,
                   error |-> PyNone]
             ELSE [success |-> TRUE,
                   closed_form |-> PyNone,
                   complexity |-> Cx("akra", 0, "O(n^{p:.4f})", p.u, 0, ZeroExpr),
                   method |-> "akra_bazzi",
                   critical_exponent |-> StrOf(p),
                   verified |-> FALSE,
                   error |-> PyNone]

(***************************************************************************)
(* verify_recurrence                                                       *)
(***************************************************************************)
\* simplify(solution.subs(n, k) - v) == 0 at k = 0 and k = 1.  log(0) is
\* zoo, so a log in the closed form never matches at 0; 0^d is 0 for d > 0;
\* log(1) is 0; phi times a nonzero integer is no integer.
SubsEquals(sol, k, v) ==
    IF sol.coef = 0 THEN v = 0
    ELSE IF k = 0
    THEN (IF sol.logp > 0 \/ sol.tail > 0 THEN FALSE
          ELSE IF sol.deg2 > 0 THEN v = 0
          ELSE v = sol.coef)
    ELSE (IF sol.logp > 0 THEN v = 0
          ELSE CASE sol.base = 0 -> v = sol.coef
                 [] sol.base = 1 -> 2 * v = 3 * sol.coef
                 [] sol.base = 2 -> FALSE
                 [] sol.base = 3 -> v = 2 * sol.coef
                 [] OTHER -> v = 3 * sol.coef)

\* verify_recurrence with base_ok set by the last base case alone.
verify_recurrence_last_case(data, e) ==
    IF ~data.solution.ok THEN Failure(ParseErrorText)
    ELSE IF BadKeys(data.base) # {} THEN Failure(ExceptionText)
    \* actual - expected raises TypeError on an object that is no Expr.
    ELSE IF data.solution.expr.k = "nonexpr" /\ Len(data.base) > 0
    THEN Failure(ExceptionText)
    ELSE LET sol == data.solution.expr
             conds == init_conds(data.base)
         IN  [success |-> TRUE,
              verified_base_cases |->
                  \A k \in DOMAIN conds :
                      (\A j \in DOMAIN conds : j <= k) => SubsEquals(sol, k, conds[k]),
              base_case_details |->
                  [k \in DOMAIN conds |->
                      [expected |-> conds[k],
                       match |-> SubsEquals(sol, k, conds[k])]],
              complexity |-> extract_complexity(sol, e.flt),
              error |-> PyNone]

\* verify_recurrence that parses the recurrence string as well.
verify_recurrence_parsing_both(data, e) ==
    IF data.recurrence = "" THEN Failure(ParseErrorText)
    ELSE IF ~data.solution.ok THEN Failure(ParseErrorText)
    ELSE IF BadKeys(data.base) # {} THEN Failure(ExceptionText)
    \* actual - expected raises TypeError on an object that is no Expr.
    ELSE IF data.solution.expr.k = "nonexpr" /\ Len(data.base) > 0
    THEN Failure(ExceptionText)
    ELSE LET sol == data.solution.expr
             conds == init_conds(data.base)
         IN  [success |-> TRUE,
              verified_base_cases |->
                  \A k \in DOMAIN conds : SubsEquals(sol, k, conds[k]),
              base_case_details |->
                  [k \in DOMAIN conds |->
                      [expected |-> conds[k],
                       match |-> SubsEquals(sol, k, conds[k])]],
              complexity |-> extract_complexity(sol, e.flt),
              error |-> PyNone]

verify_recurrence(data, e) ==
    IF ~data.solution.ok THEN Failure(ParseErrorText)
    ELSE IF BadKeys(data.base) # {} THEN Failure(ExceptionText)
    \* actual - expected raises TypeError on an object that is no Expr.
    ELSE IF data.solution.expr.k = "nonexpr" /\ Len(data.base) > 0
    THEN Failure(ExceptionText)
    ELSE LET sol == data.solution.expr
             conds == init_conds(data.base)
         IN  [success |-> TRUE,
              verified_base_cases |->
                  \A k \in DOMAIN conds : SubsEquals(sol, k, conds[k]),
              base_case_details |->
                  [k \in DOMAIN conds |->
                      [expected |-> conds[k],
                       match |-> SubsEquals(sol, k, conds[k])]],
              complexity |-> extract_complexity(sol, e.flt),
              error |-> PyNone]

(***************************************************************************)
(* compare_complexities                                                    *)
(***************************************************************************)
\* Limit call 1 is limit(simplify(f / g)), made alike by compare_asymptotic
\* and by the bound check: one limit problem, one outcome.  Call 2 is
\* limit(simplify(g / f)), call 3 is limit(f / g) on the unsimplified ratio,
\* made for limit_ratio.  f / g itself raises TypeError when f or g is no
\* Expr.
ForwardSite == 1

InverseSite == 2

RawSite == 3

CompareSites == {ForwardSite, InverseSite, RawSite}

ForwardLimit(f, g, flt) ==
    IF f.k = "nonexpr" \/ g.k = "nonexpr" THEN Raised
    ELSE LimitAt(f, g, ForwardSite, flt)

InverseLimit(f, g, flt) ==
    IF f.k = "nonexpr" \/ g.k = "nonexpr" THEN Raised
    ELSE LimitAt(g, f, InverseSite, flt)

RawLimit(f, g, flt) ==
    IF f.k = "nonexpr" \/ g.k = "nonexpr" THEN Raised
    ELSE LimitAt(f, g, RawSite, flt)

compare_complexities(data, e) ==
    IF ~data.f.ok \/ ~data.g.ok THEN Failure(ParseErrorText)
    ELSE LET f == data.f.expr
             g == data.g.expr
             lim == ForwardLimit(f, g, e.flt)
             raw == RawLimit(f, g, e.flt)
             comparison == compare_asymptotic(lim, InverseLimit(f, g, e.flt))
         IN  \* str(limit(f / g, n, oo)) is inside the outer try only.
             IF raw.kind = "raise" THEN Failure(ExceptionText)
             ELSE IF data.bound_type = "O"
             THEN [success |-> TRUE, bound_type |-> "O",
                   holds |-> verify_big_o(lim).holds,
                   constant |-> verify_big_o(lim).constant,
                   comparison |-> comparison, limit_ratio |-> StrOf(raw)]
             ELSE IF data.bound_type = "Omega"
             THEN [success |-> TRUE, bound_type |-> "Omega",
                   holds |-> verify_big_omega(lim).holds,
                   constant |-> verify_big_omega(lim).constant,
                   comparison |-> comparison, limit_ratio |-> StrOf(raw)]
             ELSE [success |-> TRUE, bound_type |-> "Theta",
                   holds |-> verify_big_theta(lim).holds,
                   constants |-> verify_big_theta(lim).constant,
                   comparison |-> comparison, limit_ratio |-> StrOf(raw)]

(***************************************************************************)
(* The requests of the model.                                              *)
(***************************************************************************)
Coefs == {-1} \cup (1..MaxCoef)

\* Growths <<fact, base, deg2, logp>> of closed forms: 1, n, n*log(n),
\* n^(5/2), n^5, (3/2)^n, phi^n, 2^n, 3^n, n!.
SolutionGrowths ==
    {<<0, 0, 0, 0>>, <<0, 0, 2, 0>>, <<0, 0, 2, 1>>, <<0, 0, 5, 0>>,
     <<0, 0, 10, 0>>, <<0, 1, 0, 0>>, <<0, 2, 0, 0>>, <<0, 3, 0, 0>>,
     <<0, 4, 0, 0>>, <<1, 0, 0, 0>>}

ClosedForms ==
    {ZeroExpr} \cup
    {Mono(c, 0, g[1], g[2], g[3], g[4], 0) : c \in Coefs, g \in SolutionGrowths}

\* The closed form of the Fibonacci numbers: phi^n / sqrt(5) plus a term
\* that vanishes; its ratio to phi^n tends to 1/sqrt(5) > 0.  The magnitude
\* of the coefficient is not kept.
Binet == Mono(1, 0, 0, 2, 0, 0, 0)

CoeffLists ==
    {[ok |-> TRUE, cs |-> <<1>>], [ok |-> TRUE, cs |-> <<1, 1>>],
     [ok |-> FALSE, cs |-> <<1>>]}

LinearBases ==
    {<<BaseEntry(TRUE, 0, 0)>>,
     <<BaseEntry(TRUE, 0, 0), BaseEntry(TRUE, 1, 1)>>,
     <<BaseEntry(FALSE, 0, 0)>>}

LinearRequests ==
    {[type |-> "linear", coeffs |-> c, base |-> b, f_n |-> f] :
        c \in CoeffLists, b \in LinearBases,
        f \in {Parsed(ZeroExpr), Parsed(NPower(2)), Parsed(NonExpr), Unparseable}}

Fibonacci ==
    [type |-> "linear", coeffs |-> [ok |-> TRUE, cs |-> <<1, 1>>],
     base |-> <<BaseEntry(TRUE, 0, 0), BaseEntry(TRUE, 1, 1)>>,
     f_n |-> Parsed(ZeroExpr)]

\* Driving terms: 0, 1, -n, log(n), sqrt(n), n, n*log(n), n^(3/2), n^2,
\* 2^n, n!, sqrt(n) + log(n), n + log(n), n + log(n)^2, and a non-Expr.
DrivingTerms ==
    {ZeroExpr, NonExpr, Mono(-1, 0, 0, 0, 2, 0, 0),
     Mono(1, 0, 0, 0, 1, 0, 1), Mono(1, 0, 0, 0, 2, 0, 1),
     Mono(1, 0, 0, 0, 2, 0, 2)} \cup
    {Mono(1, 0, g[1], g[2], g[3], g[4], 0) :
        g \in {<<0, 0, 0, 0>>, <<0, 0, 0, 1>>, <<0, 0, 1, 0>>, <<0, 0, 2, 0>>,
               <<0, 0, 2, 1>>, <<0, 0, 3, 0>>, <<0, 0, 4, 0>>, <<0, 3, 0, 0>>,
               <<1, 0, 0, 0>>}}

\* Critical exponents log_b(a) of numeric a > 0, b > 1, in units of 0.005:
\* within 0.015 of 0, 0.5, 1, ...
CriticalExps == {Units(h) + dl : h \in 0..MaxExpHalves, dl \in -3..3}

\* a and b by what log(a, b) makes of them.
DCRequests ==
    {[type |-> "divide_conquer", a |-> "pos", b |-> "gt1", p |-> p, f_n |-> f] :
        p \in CriticalExps, f \in {Parsed(e) : e \in DrivingTerms}} \cup
    {[type |-> "divide_conquer", a |-> ab[1], b |-> ab[2], p |-> 0, f_n |-> f] :
        ab \in {<<"one", "gt1">>, <<"zero", "gt1">>, <<"neg", "gt1">>,
                <<"str", "gt1">>, <<"pos", "one">>, <<"one", "one">>,
                <<"pos", "neg">>, <<"pos", "str">>},
        f \in {Parsed(Mono(1, 0, 0, 0, 0, 0, 0)), Parsed(NPower(2)),
               Parsed(Mono(1, 0, 0, 0, 0, 1, 0)), Unparseable}}

\* The "base" objects of verify requests: keys among "0", "1", "00" and one
\* that is no integer, values 0 and 1.
BaseMaps ==
    LET e0 == {BaseEntry(TRUE, 0, v) : v \in 0..1}
        e1 == {BaseEntry(TRUE, 1, v) : v \in 0..1}
        bad == BaseEntry(FALSE, 0, 0)
    IN  {<< >>, <<bad>>} \cup {<<x>> : x \in e0 \cup e1}
        \cup {<<x, y>> : x \in e0, y \in e1 \cup {bad}}
        \cup {<<BaseEntry(TRUE, 0, v), BaseEntry(TRUE, 0, 1 - v)>> : v \in 0..1}

\* The "recurrence" strings: none, the Fibonacci equation, a malformed one.
RecurrenceStrings == {"", "T(n) - T(n-1) - T(n-2)", "T(n) - ("}

VerifyRequests ==
    {[type |-> "verify", recurrence |-> r, solution |-> sl, base |-> b] :
        r \in RecurrenceStrings,
        sl \in {Unparseable, Parsed(NonExpr)} \cup {Parsed(e) : e \in ClosedForms},
        b \in BaseMaps}

\* Growths of the expressions compared: 1, n, 2^n.
CompareExprs ==
    {ZeroExpr, NonExpr} \cup
    {Mono(c, 0, 0, g[1], g[2], 0, 0) : c \in Coefs, g \in {<<0, 0>>, <<0, 2>>, <<3, 0>>}}

CompareRequests ==
    {[type |-> "compare", f |-> f, g |-> g, bound_type |-> bt] :
        f \in {Unparseable} \cup {Parsed(e) : e \in CompareExprs},
        g \in {Unparseable} \cup {Parsed(e) : e \in CompareExprs},
        bt \in {"O", "Omega", "Theta", "theta"}}

UnknownRequests == {[type |-> "solve"]}

Requests ==
    LinearRequests \cup DCRequests \cup VerifyRequests \cup CompareRequests
    \cup UnknownRequests

(***************************************************************************)
(* What the engine may deliver to each handler.  Calls the handler never   *)
(* makes have no outcome.                                                  *)
(***************************************************************************)
\* The limit outcomes of extract_complexity(expr): none is asked for when
\* expr is constant or no Expr.
ClassifyFaults(expr) ==
    IF expr.k = "nonexpr" \/ IsConstant(expr) THEN {NoFault}
    ELSE Faults(ClassifySites, LadderFaultKinds)

LinearEngines(data) ==
    IF \/ ~data.f_n.ok \/ data.f_n.expr.k = "nonexpr"
       \/ ~data.coeffs.ok \/ BadKeys(data.base) # {}
    THEN {NoEngine}
    ELSE LET sols == IF data = Fibonacci THEN {Binet}
                     ELSE {e \in ClosedForms : e.coef \in {0, 1}}
             resids == IF Cardinality(DOMAIN init_conds(data.base)) < Len(data.coeffs.cs)
                       THEN {TRUE}
                       ELSE BOOLEAN
         IN  {Engine(NoFault, out, ZeroExpr, TRUE) :
                 out \in IF data = Fibonacci THEN {} ELSE {"none", "raise"}}
             \cup UNION {{Engine(flt, "sol", sl, r) :
                             flt \in ClassifyFaults(sl), r \in resids} : sl \in sols}

DCEngines(data) ==
    IF \/ ~data.f_n.ok
       \/ critical_exp_float(data.a, data.b, data.p).t = "raise"
       \/ data.f_n.expr.k = "nonexpr" \/ IsPolynomial(data.f_n.expr)
    THEN {NoEngine}
    ELSE {Engine(flt, "unused", ZeroExpr, TRUE) : flt \in Faults(ProbeSites, FaultKinds)}

VerifyEngines(data) ==
    IF \/ ~data.solution.ok \/ BadKeys(data.base) # {}
       \/ (data.solution.expr.k = "nonexpr" /\ Len(data.base) > 0)
    THEN {NoEngine}
    ELSE {Engine(flt, "unused", ZeroExpr, TRUE) :
             flt \in ClassifyFaults(data.solution.expr)}

CompareEngines(data) ==
    IF \/ ~data.f.ok \/ ~data.g.ok
       \/ data.f.expr.k = "nonexpr" \/ data.g.expr.k = "nonexpr"
    THEN {NoEngine}
    ELSE {Engine(flt, "unused", ZeroExpr, TRUE) :
             flt \in Faults(CompareSites, LadderFaultKinds)}

(***************************************************************************)
(* main(): one run per request.                                            *)
(***************************************************************************)
NoRequest == [type |-> "none"]

NoResponse == [pending |-> TRUE]

Init ==
    /\ pc = "idle"
    /\ req = NoRequest
    /\ eng = NoEngine
    /\ resp = NoResponse

\* json.loads(sys.stdin.read()) of a JSON object.
ReadRequest ==
    /\ pc = "idle"
    /\ req' \in Requests
    /\ pc' = "dispatch"
    /\ UNCHANGED <<eng, resp>>

\* json.loads raises JSONDecodeError: a failure is printed, exit status 1.
InvalidJson ==
    /\ pc = "idle"
    /\ resp' = Failure("Invalid JSON: " \o ExceptionText)
    /\ pc' = "returned"
    /\ UNCHANGED <<req, eng>>

\* json.loads gives a value that is no object (a list, a number): it has no
\* get, and the AttributeError is caught nowhere.
NotAnObject ==
    /\ pc = "idle"
    /\ req' = [type |-> "not an object"]
    /\ resp' = Escaped("AttributeError")
    /\ pc' = "crashed"
    /\ UNCHANGED eng

\* A handler ran on req with the engine outcomes e and gave r.
Handled(e, r) ==
    /\ eng' = e
    /\ resp' = r
    /\ pc' = IF "raised" \in DOMAIN r THEN "crashed" ELSE "returned"
    /\ UNCHANGED req

SolveLinear ==
    /\ pc = "dispatch"
    /\ req.type = "linear"
    /\ \E e \in LinearEngines(req) : Handled(e, solve_linear_recurrence(req, e))

SolveDivideConquer ==
    /\ pc = "dispatch"
    /\ req.type = "divide_conquer"
    /\ \E e \in DCEngines(req) : Handled(e, solve_divide_conquer(req, e))

VerifyRecurrence ==
    /\ pc = "dispatch"
    /\ req.type = "verify"
    /\ \E e \in VerifyEngines(req) : Handled(e, verify_recurrence(req, e))

CompareComplexities ==
    /\ pc = "dispatch"
    /\ req.type = "compare"
    /\ \E e \in CompareEngines(req) : Handled(e, compare_complexities(req, e))

UnknownType ==
    /\ pc = "dispatch"
    /\ req.type \notin {"linear", "divide_conquer", "verify", "compare"}
    /\ Handled(NoEngine, Failure("Unknown type: " \o req.type))

\* print(json.dumps(result)); the process ends and the next run starts.
PrintResult ==
    /\ pc = "returned"
    /\ pc' = "idle"
    /\ req' = NoRequest
    /\ eng' = NoEngine
    /\ resp' = NoResponse

\* The exception left main(): a traceback, no response; the next run starts.
Traceback ==
    /\ pc = "crashed"
    /\ pc' = "idle"
    /\ req' = NoRequest
    /\ eng' = NoEngine
    /\ resp' = NoResponse

Next ==
    \/ ReadRequest
    \/ InvalidJson
    \/ NotAnObject
    \/ SolveLinear
    \/ SolveDivideConquer
    \/ VerifyRecurrence
    \/ CompareComplexities
    \/ UnknownType
    \/ PrintResult
    \/ Traceback

Spec == Init /\ [][Next]_vars

(***************************************************************************)
(* Vocabulary of the properties.                                           *)
(***************************************************************************)
HandlerKinds == {"linear", "divide_conquer", "verify", "compare"}

\* A handler, the dispatcher or the JSON reader has produced its result.
Returned == pc = "returned" /\ "success" \in DOMAIN resp

Succeeded == Returned /\ resp.success

\* A limit that is a finite, strictly positive number.
FinitePositive(l) == l.kind = "num" /\ l.num > 0 /\ l.den > 0

\* A limit that diverges: +oo, or the unsigned infinity.
Diverges(l) == l.kind \in {"oo", "zoo"}

\* The response carries the class extract_complexity gave to Subject.
Classified == Succeeded /\ req.type \in {"linear", "verify"}

Subject == IF req.type = "linear" THEN eng.rsolve.sol ELSE req.solution.expr

\* The outcome of limit(Subject / rung i) in this run.
RungOutcome(i) == LimitAt(Subject, candidates[i].expr, i, eng.flt)

\* C1: every linear, divide_conquer, verify or compare request, whatever its
\* field values, ends with a response record that has a success flag; no
\* exception leaves the handler.
C1_NoExceptionEscapes ==
    (pc \in {"returned", "crashed"} /\ req.type \in HandlerKinds)
        => (pc = "returned" /\ "success" \in DOMAIN resp)

\* C2: a response with success = false, from a handler, from the dispatcher
\* or from the JSON reader, has a non-empty error string and no field but
\* success and error.
C2_FailureCarriesOnlyError ==
    (Returned /\ ~resp.success)
        => /\ DOMAIN resp = {"success", "error"}
           /\ resp.error.t = "str"
           /\ Len(resp.error.s) > 0

C2_Witness ==
    /\ Returned /\ ~resp.success
    /\ req.type = "compare" /\ req.f.ok /\ req.g.ok

ClassifyCalled ==
    /\ pc \in {"returned", "crashed"}
    /\ \/ /\ req.type = "verify"
          /\ req.solution.ok /\ BadKeys(req.base) = {}
          /\ (req.solution.expr.k = "nonexpr" => Len(req.base) = 0)
       \/ /\ req.type = "linear"
          /\ eng.rsolve.out = "sol"

\* The outcome of the limit call of extract_degree_via_limit in this run.
DegreeOutcome ==
    IF DegreeSite \in eng.flt.sites THEN FaultValue(eng.flt.kind)
    ELSE LogRatioLimit(Subject)

NoRungMatches == \A j \in Rungs : ~FinitePositive(RungOutcome(j))

C5_PhiGrowthIsPhiClass ==
    (/\ Classified /\ req.type = "linear"
     /\ eng.flt.sites = {}
     /\ Subject.coef > 0 /\ Subject.fact = 0 /\ Subject.base = Binet.base
     /\ Subject.deg2 = 0 /\ Subject.logp = 0)
        => resp.complexity.text = "O(phi^n)"

\* A divide-and-conquer response of the Master Theorem branch whose degree
\* and critical exponent are both numbers.
MasterAnswered ==
    /\ Succeeded /\ req.type = "divide_conquer"
    /\ "master_theorem_case" \in DOMAIN resp
    /\ resp.f_degree.t = "float"
    /\ resp.critical_exponent.v.t = "float"

\* C6: the case reported is 1 exactly when d < p - epsilon, 2 exactly when
\* |d - p| < epsilon, 3 exactly when d > p + epsilon.
C6_CasesByThreshold ==
    MasterAnswered
        => LET d == resp.f_degree.u
               p == resp.critical_exponent.v.u
           IN  /\ resp.master_theorem_case = 1 <=> d < p - Epsilon
               /\ resp.master_theorem_case = 2 <=> AbsInt(d - p) < Epsilon
               /\ resp.master_theorem_case = 3 <=> d > p + Epsilon

\* The critical exponent log_b(a) of a request with numeric a > 0, b > 1.
CriticalOf(r) == IF r.a = "one" THEN 0 ELSE r.p

\* A divide_conquer request with numeric a > 0 and b > 1 whose driving term
\* is a nonzero polynomial (no log factor) of a degree within epsilon of the
\* critical exponent, as when a = b^d.
CriticalPolynomial ==
    /\ pc \in {"returned", "crashed"} /\ req.type = "divide_conquer"
    /\ req.a \in {"pos", "one"} /\ req.b = "gt1"
    /\ req.f_n.ok /\ req.f_n.expr.k = "expr"
    /\ req.f_n.expr.coef # 0
    /\ req.f_n.expr.fact = 0 /\ req.f_n.expr.base = 0
    /\ req.f_n.expr.logp = 0 /\ req.f_n.expr.tail = 0
    /\ req.f_n.expr.deg2 % 2 = 0
    /\ AbsInt(Units(req.f_n.expr.deg2) - CriticalOf(req)) < Epsilon

\* The class n^p * log(n)^k of a Master Theorem answer is the growth of e.
SameGrowth(cx, e) ==
    /\ cx.form \in {"dc2", "dc2k"}
    /\ e.fact = 0 /\ e.base = 0
    /\ cx.p = Units(e.deg2) /\ cx.k = e.logp

\* C7: a polynomial driving term of degree d = log_b(a), with no log factor,
\* is reported as Case 2 with the class n^p * log(n); it is n * log(n) for
\* a = 2, b = 2, f = n and log(n) for a = 1, b = 2, f = 1.
C7_CriticalPolynomialIsCase2 ==
    CriticalPolynomial
        => /\ Succeeded
           /\ "master_theorem_case" \in DOMAIN resp
           /\ resp.master_theorem_case = 2
           /\ resp.complexity.text = "O(n^{critical_exp} * log(n))"
           /\ resp.complexity.p = CriticalOf(req)
           /\ resp.complexity.k = 1
           /\ (req.a = "pos" /\ req.p = Units(2) /\ req.f_n.expr = NPower(2))
                  => SameGrowth(resp.complexity, candidates[6].expr)
           /\ (req.a = "one" /\ req.f_n.expr = NPower(0))
                  => SameGrowth(resp.complexity, candidates[2].expr)

\* T(n) = 2 T(n/2) + n has been answered.
C7_Witness ==
    /\ CriticalPolynomial /\ Succeeded
    /\ req.a = "pos" /\ req.p = Units(2) /\ req.f_n.expr = NPower(2)
    /\ resp.master_theorem_case = 2

\* C8: a successful divide_conquer response has the critical exponent, the
\* degree of the driving term, the Master Theorem case or the Akra-Bazzi
\* marker, the complexity, and a null closed form.
C8_DivideConquerFields ==
    (Succeeded /\ req.type = "divide_conquer"
     /\ req.a \in {"pos", "one"} /\ req.b = "gt1")
        => /\ {"critical_exponent", "f_degree", "complexity", "closed_form"}
                  \subseteq DOMAIN resp
           /\ \/ "master_theorem_case" \in DOMAIN resp
              \/ ("method" \in DOMAIN resp /\ resp.method = "akra_bazzi")
           /\ resp.closed_form = PyNone

\* A compare request was answered; L is the outcome of limit(f / g).
Compared(bt) ==
    /\ Succeeded /\ req.type = "compare"
    /\ resp.bound_type = bt

RatioLimit == ForwardLimit(req.f.expr, req.g.expr, eng.flt)

\* The float c is the number l.
FloatIs(c, l, cn, ln) ==
    /\ c.t = "float" /\ c.phi = l.phi
    /\ c.den > 0
    /\ cn * c.num * l.den = ln * l.num * c.den

\* C9: the Omega check holds with constant +infinity when L diverges, holds
\* with constant L when L is a positive number, and in every other case
\* does not hold and has no constant.
C9_OmegaByLimit ==
    Compared("Omega")
        => /\ req.bound_type = "Omega"
           /\ Diverges(RatioLimit) => (resp.holds /\ resp.constant = PyInf)
           /\ FinitePositive(RatioLimit)
                  => (resp.holds /\ FloatIs(resp.constant, RatioLimit, 1, 1))
           /\ (~Diverges(RatioLimit) /\ ~FinitePositive(RatioLimit))
                  => (~resp.holds /\ resp.constant = PyNone)

\* f = 2^n against g = n: the ratio diverges and the check holds.
C9_Witness ==
    /\ Compared("Omega")
    /\ eng.flt.sites = {}
    /\ RatioLimit = Oo
    /\ resp.holds /\ resp.constant = PyInf

\* C10: the Theta check holds exactly when L is a finite positive number,
\* and then its constants are L/2 and 2L; otherwise it has no constants.
C10_ThetaByLimit ==
    Compared("Theta")
        => /\ resp.holds <=> FinitePositive(RatioLimit)
           /\ resp.holds
                  => /\ resp.constants.t = "pair"
                     /\ FloatIs(resp.constants.c1, RatioLimit, 2, 1)
                     /\ FloatIs(resp.constants.c2, RatioLimit, 1, 2)
           /\ ~resp.holds => resp.constants = PyNone

\* f = n against g = 2n: L = 1/2, the constants are 1/4 and 1.
C10_Witness ==
    /\ Compared("Theta")
    /\ eng.flt.sites = {}
    /\ RatioLimit = Num(1, 2, 0)
    /\ resp.holds
    /\ resp.constants.c1.num * 4 = resp.constants.c1.den
    /\ resp.constants.c2.num = resp.constants.c2.den

\* A compare request was answered, whatever its bound_type.
Related == Succeeded /\ req.type = "compare"

ReciprocalLimit == InverseLimit(req.f.expr, req.g.expr, eng.flt)

\* The three tests on a limit l: zero, divergent (with the limits in also),
\* finite positive; "none" when all three fail.
ThreeTests(l, also, zero, inf, same) ==
    IF l.kind = "raise" THEN "none"
    ELSE IF l.kind = "num" /\ l.num = 0 THEN zero
    ELSE IF Diverges(l) \/ l.kind \in also THEN inf
    ELSE IF FinitePositive(l) /\ same # "none" THEN same
    ELSE "none"

\* C11: the relation is decided by L = limit(f/g): 0 gives f < g, +oo or the
\* unsigned infinity gives f > g, a finite positive number gives f ~ g; for
\* any other L the same three tests are made on limit(g/f), mirrored (0
\* gives f > g, infinite gives f < g, finite positive gives f ~ g), and ? is
\* reported only if that is indeterminate too; bound_type plays no part.
C11_RelationMirrorsThreeTests ==
    (Related /\ RatioLimit.kind # "raise")
        => LET first == ThreeTests(RatioLimit, {}, "f < g", "f > g", "f ~ g")
               second == ThreeTests(ReciprocalLimit, {}, "f > g", "f < g", "f ~ g")
           IN  resp.comparison =
                   IF first # "none" THEN first
                   ELSE IF second # "none" THEN second
                   ELSE "?"

\* C11, with the tests the relation makes: -oo counts as divergent in the
\* first round, and the second round has the tests for 0 and for infinity
\* only, so a finite positive limit(g/f) gives ?; an exception of either
\* limit gives ? as well; bound_type plays no part.
C11_RelationByItsTests ==
    Related
        => LET first == ThreeTests(RatioLimit, {"-oo"}, "f < g", "f > g", "f ~ g")
               second == ThreeTests(ReciprocalLimit, {}, "f > g", "f < g", "none")
           IN  resp.comparison =
                   IF RatioLimit.kind = "raise" THEN "?"
                   ELSE IF first # "none" THEN first
                   ELSE IF second # "none" THEN second
                   ELSE "?"

\* limit(f/g) came out as nan and limit(g/f) = 0 decided the relation.
C11_Witness ==
    /\ Related
    /\ RatioLimit.kind = "nan"
    /\ ReciprocalLimit = Num(0, 1, 0)
    /\ resp.comparison = "f > g"

\* C12: with every limit resolved, comparing an expression with itself for
\* Theta holds and has limit_ratio 1, the constant 0 and negative
\* expressions included.
C12_ThetaReflexive ==
    (/\ pc \in {"returned", "crashed"} /\ req.type = "compare"
     /\ req.bound_type = "Theta"
     /\ req.f.ok /\ req.f.expr.k = "expr" /\ req.g = req.f
     /\ eng.flt.sites = {})
        => /\ Succeeded
           /\ resp.holds
           /\ resp.limit_ratio = StrOf(Num(1, 1, 0))

\* A limit the engine did not resolve: an exception, nan, or a Limit object
\* left unevaluated.
Unresolved(l) == l.kind \in {"raise", "nan", "uneval"}

RawRatioLimit == RawLimit(req.f.expr, req.g.expr, eng.flt)

\* C13: when f and g parse, a limit of f/g that the engine does not resolve
\* never fails the request: the response is a success, the bound does not
\* hold, and the relation is ? unless the reciprocal limit decides it.
C13_UnresolvedLimitDegrades ==
    (/\ pc \in {"returned", "crashed"} /\ req.type = "compare"
     /\ req.f.ok /\ req.g.ok
     /\ (Unresolved(RatioLimit) \/ Unresolved(RawRatioLimit)))
        => /\ Succeeded
           /\ Unresolved(RatioLimit)
                  => /\ ~resp.holds
                     /\ Unresolved(ReciprocalLimit) => resp.comparison = "?"

\* A verify request was answered with the base-case report.
Verified == Succeeded /\ req.type = "verify"

\* The value declared for base index k; a later key for the same integer
\* replaces an earlier one.
Declared(k) ==
    LET at == {i \in 1..Len(req.base) : req.base[i].k = k}
    IN  req.base[CHOOSE i \in at : \A j \in at : j <= i].v

DeclaredIndices == {req.base[i].k : i \in 1..Len(req.base)}

C15_NumericCheckByResidual ==
    (Succeeded /\ req.type = "linear")
        => (resp.verified <=> eng.resid)

====
